---- MODULE Spec2Model ----
(***************************************************************************)
(* Request lifecycle engine of the pasugo backend (routes/requests.py).    *)
(* One Request row is modelled; every REST handler that mutates it is an   *)
(* action translated from its code, guard by guard.                        *)
(*                                                                         *)
(* Spec      : the handlers run one after another (each call is one step). *)
(* SpecRace  : two riders' accept handlers interleave between the read of  *)
(*             the row and the commit of the rider's session.              *)
(*                                                                         *)
(* The messaging router (routes/messaging.py) is modelled further down,    *)
(* with the specifications SpecChat, SpecInbox, SpecAccess, SpecConvRace   *)
(* and SpecDevices; rider discovery (routes/locations.py) with             *)
(* SpecDiscovery, the service fee (utils/distance.py) with SpecFee, the    *)
(* two readers of the offer expiry with SpecExpiry and confirm_payment     *)
(* commit by commit with SpecConfirm.                                      *)
(***************************************************************************)
EXTENDS Integers, Sequences, FiniteSets, TLC

\* the request row, the clock and the handlers' responses
VARIABLES db, now, last, was_confirmed, acceptPc, acceptResp
\* the messaging tables, the room registry and the websocket handlers
VARIABLES conversation, messages, receipts, connections, typing,
          rooms, roomGen, handler, client, inbox, svc
\* handlers that are followed statement by statement
VARIABLES convCall
\* the riders with their presence records, and the answer of rider discovery
VARIABLES riders, found
\* a distance and the service fee computed for it
VARIABLES fare
\* the answer of a rider's pending-for-me query
VARIABLES pendingForMe
\* position of each rider's confirm-payment handler
VARIABLES confirmPc

lifeVars == <<db, now, last, was_confirmed, acceptPc, acceptResp>>
chatVars == <<conversation, messages, receipts, connections, typing,
              rooms, roomGen, handler, client, inbox, svc>>
auxVars == <<convCall, riders, found, fare, pendingForMe, confirmPc>>
vars == <<lifeVars, chatVars, auxVars>>

----------------------------------------------------------------------------
(* Bounds of the model *)

\* number of clock advances explored
MaxTicks == 1
\* seconds that pass in one clock advance
ClockStep == 700
\* messages sent in the conversation
MaxMessages == 2
\* error events a connection is sent
MaxErrors == 1

(* Program constants *)

\* seconds after which an unanswered offer is expired
OfferTimeoutSeconds == 600

----------------------------------------------------------------------------
(* Values *)

\* Python None / SQL NULL is the empty tuple, a present value v is <<v>>
Nil == <<>>
Some(v) == <<v>>

Customers == {"c1", "c2"}
RiderUsers == {"r1", "r2"}
Admins == {"a1"}
Users == Customers \cup RiderUsers \cup Admins

\* User.user_type
user_type(u) == IF u \in Customers THEN "customer"
                ELSE IF u \in RiderUsers THEN "rider" ELSE "admin"

\* current_user.rider_profile.rider_id : the rider entity of a rider user
rider_profile(u) == IF u = "r1" THEN "rider1" ELSE "rider2"

\* the users who call create_request ("c2" is a customer who owns no request)
Creators == {"c1", "r1"}

\* rows of the riders table; "rider9" is an id with no row
RiderIds == {"rider1", "rider2"}
RiderIdInputs == RiderIds \cup {"rider9"}

\* RequestStatus enumeration
RequestStatus == {"pending", "assigned", "in_progress", "completed", "cancelled"}

\* payment_method values accepted by create_request; anything else is stored as NULL
PaymentMethodInputs == {"cod", "gcash", "card"}

\* bill amounts a rider may submit (decimal amounts, in whole currency units)
Amounts == {0, 30}

\* the row the handlers load: db.query(Request).filter(...).first()
Row == db[1]

\* the response of the last handler call
\*   after_timeout: the call before this one was a status poll that reported timed_out
Response(op, code, to, after) ==
    [op |-> op, code |-> code, timed_out |-> to, after_timeout |-> after]

Respond(op, code) == Response(op, code, FALSE, FALSE)

\* a handler that raises HTTPException before any assignment: nothing is written
Reject(op, code) ==
    /\ last' = Respond(op, code)
    /\ UNCHANGED <<db, was_confirmed>>

\* a handler that commits the row r
Commit(op, code, r) ==
    /\ db' = Some(r)
    /\ last' = Respond(op, code)
    /\ UNCHANGED was_confirmed

\* the websocket connections (socket ids) that may be opened
Channels == {"s1", "s2", "s3"}

\* one connection of each party; "s3" is a second device of the customer
FirstDevices == {"s1", "s2"}

\* int(user.get("sub")) : the user whose token a connection carries
ChanUser(ch) == IF ch \in {"s1", "s3"} THEN "c1" ELSE "r1"

\* position of a websocket_endpoint coroutine, and its broadcast in progress
HandlerAt(pc, bc) == [pc |-> pc, bc |-> bc]

\* the message_read_receipts table: how many rows it holds for each
\* (message_id, user_id)
ReceiptKeys == (1 .. MaxMessages) \X Users
NoReceipts == [k \in ReceiptKeys |-> 0]

\* no messaging traffic yet
ChatIdle ==
    /\ messages = <<>>
    /\ receipts = NoReceipts
    /\ connections = [ch \in Channels |-> Nil]
    /\ typing = [u \in Users |-> Nil]
    /\ rooms = Nil
    /\ roomGen = 0
    /\ handler = [ch \in Channels |-> HandlerAt("new", Nil)]
    /\ client = [ch \in Channels |-> "open"]
    /\ inbox = [ch \in Channels |-> <<>>]
    /\ svc = [op |-> "none", code |-> 0, count |-> 0]

\* position of a create_conversation request: what its query found, and its
\* answer (the conversation_id it returned)
ConvAt(pc, r, code, id) == [pc |-> pc, request |-> r, code |-> code, conversation_id |-> id]

\* no handler is in the middle of its statements
\* the answer of a rider discovery call, with the call's parameters
Found(op, lat, radius, status, limit, code, list) ==
    [op |-> op, lat |-> lat, radius |-> radius, status |-> status,
     limit |-> limit, code |-> code, riders |-> list]

NoDiscovery == found = Found("none", 0, 0, "none", 0, 0, <<>>)

\* a distance in hundredths of a km, and the fee in pesos once computed
Fare(distance_km, pc, fee) == [distance_km |-> distance_km, pc |-> pc, fee |-> fee]

\* the answer of GET /requests/pending-for-me: whether the request is listed
Listing(code, listed, time_remaining) ==
    [code |-> code, listed |-> listed, time_remaining |-> time_remaining]

NoListing == pendingForMe = Listing(0, FALSE, 0)

NoConfirm == confirmPc = [u \in RiderUsers |-> "idle"]

AuxIdle ==
    /\ NoListing
    /\ NoConfirm
    /\ fare = Fare(0, "asked", 0)
    /\ convCall = [u \in Users |-> ConvAt("idle", Nil, 0, 0)]
    /\ riders = <<>>
    /\ NoDiscovery

----------------------------------------------------------------------------
Init ==
    /\ db = Nil
    /\ now = 0
    /\ last = Respond("none", 0)
    /\ was_confirmed = FALSE
    /\ acceptPc = [u \in RiderUsers |-> "idle"]
    /\ acceptResp = [u \in RiderUsers |-> 0]
    /\ conversation = Nil
    /\ ChatIdle
    /\ AuxIdle

\* datetime.utcnow() advances between calls
Tick ==
    /\ now < MaxTicks * ClockStep
    /\ now' = now + ClockStep
    /\ UNCHANGED <<db, last, was_confirmed, acceptPc, acceptResp, chatVars, auxVars>>

\* the Request row create_request inserts
NewRequest(u, pm) ==
    [customer_id |-> u,
     rider_id |-> Nil,
     selected_rider_id |-> Nil,
     notification_sent_at |-> Nil,
     status |-> "pending",
     payment_method |-> IF pm \in {"cod", "gcash"} THEN Some(pm) ELSE Nil,
     payment_status |-> Nil,
     item_cost |-> Nil,
     service_fee |-> Nil,
     total_amount |-> Nil,
     gcash_reference |-> Nil,
     completed_at |-> Nil]

\* POST /requests/create
create_request(u, pm) ==
    /\ db = Nil
    /\ UNCHANGED <<now, acceptPc, acceptResp, chatVars, auxVars>>
    /\ IF user_type(u) # "customer"
       THEN Reject("create", 403)
       ELSE Commit("create", 201, NewRequest(u, pm))

\* accept_request: the checks made on the loaded row, as the HTTP status they raise
AcceptCheck(u) ==
    IF user_type(u) # "rider" THEN 403
    ELSE IF db = Nil THEN 404
    ELSE IF Row.status # "pending" THEN 400
    ELSE 200

\* accept_request: the columns the handler assigns before db.commit()
AcceptWrite(r, u) ==
    [r EXCEPT !.rider_id = Some(rider_profile(u)), !.status = "assigned"]

\* POST /requests/{id}/accept
accept_request(u) ==
    /\ UNCHANGED <<now, acceptPc, acceptResp, chatVars, auxVars>>
    /\ IF AcceptCheck(u) # 200
       THEN Reject("accept", AcceptCheck(u))
       ELSE Commit("accept", 200, AcceptWrite(Row, u))

\* the generic status update never stamping completed_at
StampOnUpdate_never(r, new_status) == r

\* update_request_status: completed_at after the status assignment
StampOnUpdate(r, new_status) ==
    IF new_status = "completed" THEN [r EXCEPT !.completed_at = Some(now)] ELSE r

\* PATCH /requests/{id}/status
update_request_status(u, new_status) ==
    /\ UNCHANGED <<now, acceptPc, acceptResp, chatVars, auxVars>>
    /\ IF db = Nil THEN Reject("update_status", 404)
       ELSE IF user_type(u) = "customer" /\ Row.customer_id # u
       THEN Reject("update_status", 403)
       ELSE IF user_type(u) = "rider" /\ Row.rider_id # Some(rider_profile(u))
       THEN Reject("update_status", 403)
       ELSE IF Row.status = "completed"
       THEN Reject("update_status", 400)
       ELSE Commit("update_status", 200,
                   StampOnUpdate([Row EXCEPT !.status = new_status], new_status))

\* cancel without the completed check
cancel_request_unguarded(u) ==
    /\ UNCHANGED <<now, acceptPc, acceptResp, chatVars, auxVars>>
    /\ IF db = Nil THEN Reject("cancel", 404)
       ELSE IF Row.customer_id # u THEN Reject("cancel", 403)
       ELSE Commit("cancel", 200, [Row EXCEPT !.status = "cancelled"])

\* POST /requests/{id}/cancel
cancel_request(u) ==
    /\ UNCHANGED <<now, acceptPc, acceptResp, chatVars, auxVars>>
    /\ IF db = Nil THEN Reject("cancel", 404)
       ELSE IF Row.customer_id # u THEN Reject("cancel", 403)
       ELSE IF Row.status = "completed" THEN Reject("cancel", 400)
       ELSE Commit("cancel", 200, [Row EXCEPT !.status = "cancelled"])

\* POST /requests/{id}/select-rider
select_rider_for_request(u, rider_id) ==
    /\ UNCHANGED <<now, acceptPc, acceptResp, chatVars, auxVars>>
    /\ IF user_type(u) # "customer" THEN Reject("select_rider", 403)
       ELSE IF db = Nil THEN Reject("select_rider", 404)
       ELSE IF Row.customer_id # u THEN Reject("select_rider", 403)
       ELSE IF Row.status # "pending" THEN Reject("select_rider", 400)
       ELSE IF rider_id \notin RiderIds THEN Reject("select_rider", 404)
       ELSE Commit("select_rider", 200,
                   [Row EXCEPT !.selected_rider_id = Some(rider_id),
                               !.notification_sent_at = Some(now)])

\* the status poll forgetting to reset the offer timestamp
ClearOffer_keepTimestamp(r) ==
    [r EXCEPT !.selected_rider_id = Nil]

\* the offer fields set to NULL (decline, expiry found by the status poll)
ClearOffer(r) ==
    [r EXCEPT !.selected_rider_id = Nil, !.notification_sent_at = Nil]

\* POST /requests/{id}/decline
decline_request(u) ==
    /\ UNCHANGED <<now, acceptPc, acceptResp, chatVars, auxVars>>
    /\ IF user_type(u) # "rider" THEN Reject("decline", 403)
       ELSE IF db = Nil THEN Reject("decline", 404)
       ELSE IF Row.selected_rider_id # Some(rider_profile(u))
       THEN Reject("decline", 403)
       ELSE Commit("decline", 200, ClearOffer(Row))

\* POST /requests/{id}/start-delivery
start_delivery(u) ==
    /\ UNCHANGED <<now, acceptPc, acceptResp, chatVars, auxVars>>
    /\ IF user_type(u) # "rider" THEN Reject("start_delivery", 403)
       ELSE IF db = Nil THEN Reject("start_delivery", 404)
       ELSE IF Row.rider_id # Some(rider_profile(u))
       THEN Reject("start_delivery", 403)
       ELSE IF Row.status # "assigned" THEN Reject("start_delivery", 400)
       ELSE Commit("start_delivery", 200, [Row EXCEPT !.status = "in_progress"])

\* the total taken to be the item cost alone
BillTotal_costOnly(item_cost, service_fee) == item_cost

\* submit_bill: total = item_cost + service_fee on Decimal values (exact)
BillTotal(item_cost, service_fee) == item_cost + service_fee

\* POST /requests/{id}/submit-bill
submit_bill(u, item_cost, service_fee) ==
    /\ UNCHANGED <<now, acceptPc, acceptResp, chatVars, auxVars>>
    /\ IF user_type(u) # "rider" THEN Reject("submit_bill", 403)
       ELSE IF db = Nil THEN Reject("submit_bill", 404)
       ELSE IF Row.rider_id # Some(rider_profile(u))
       THEN Reject("submit_bill", 403)
       ELSE IF Row.status \notin {"assigned", "in_progress"}
       THEN Reject("submit_bill", 400)
       ELSE Commit("submit_bill", 200,
                   [Row EXCEPT !.item_cost = Some(item_cost),
                               !.service_fee = Some(service_fee),
                               !.total_amount = Some(BillTotal(item_cost, service_fee)),
                               !.payment_status = Some("pending")])

\* Python truthiness of request.total_amount: None and Decimal(0) are false
Truthy(amount) == amount # Nil /\ amount # Some(0)

\* submit_payment storing the reference before the bill check
submit_payment_writeFirst(u, gcash_reference) ==
    /\ UNCHANGED <<now, acceptPc, acceptResp, chatVars, auxVars>>
    /\ IF user_type(u) # "customer" THEN Reject("submit_payment", 403)
       ELSE IF db = Nil THEN Reject("submit_payment", 404)
       ELSE IF Row.customer_id # u THEN Reject("submit_payment", 403)
       ELSE IF Row.payment_method # Some("gcash") THEN Reject("submit_payment", 400)
       ELSE IF ~Truthy(Row.total_amount)
       THEN Commit("submit_payment", 400,
                   [Row EXCEPT !.gcash_reference = Some(gcash_reference)])
       ELSE Commit("submit_payment", 200,
                   [Row EXCEPT !.gcash_reference = Some(gcash_reference),
                               !.payment_status = Some("submitted")])

\* POST /requests/{id}/submit-payment
submit_payment(u, gcash_reference) ==
    /\ UNCHANGED <<now, acceptPc, acceptResp, chatVars, auxVars>>
    /\ IF user_type(u) # "customer" THEN Reject("submit_payment", 403)
       ELSE IF db = Nil THEN Reject("submit_payment", 404)
       ELSE IF Row.customer_id # u THEN Reject("submit_payment", 403)
       ELSE IF Row.payment_method # Some("gcash") THEN Reject("submit_payment", 400)
       ELSE IF ~Truthy(Row.total_amount) THEN Reject("submit_payment", 400)
       ELSE Commit("submit_payment", 200,
                   [Row EXCEPT !.gcash_reference = Some(gcash_reference),
                               !.payment_status = Some("submitted")])

\* the auto-completion taken from in_progress only
AutoComplete_inProgressOnly(r) ==
    IF r.status = "in_progress"
    THEN [r EXCEPT !.status = "completed", !.completed_at = Some(now)]
    ELSE r

\* confirm_payment: auto-complete the delivery when payment is confirmed
AutoComplete(r) ==
    IF r.status \in {"assigned", "in_progress"}
    THEN [r EXCEPT !.status = "completed", !.completed_at = Some(now)]
    ELSE r

\* POST /requests/{id}/confirm-payment
confirm_payment(u) ==
    /\ UNCHANGED <<now, acceptPc, acceptResp, chatVars, auxVars>>
    /\ IF user_type(u) # "rider" THEN Reject("confirm_payment", 403)
       ELSE IF db = Nil THEN Reject("confirm_payment", 404)
       ELSE IF Row.rider_id # Some(rider_profile(u))
       THEN Reject("confirm_payment", 403)
       ELSE /\ db' = Some(AutoComplete([Row EXCEPT !.payment_status = Some("confirmed")]))
            /\ last' = Respond("confirm_payment", 200)
            /\ was_confirmed' = TRUE

\* complete_delivery: the columns the handler assigns
CompleteWrite(r) ==
    [r EXCEPT !.status = "completed", !.completed_at = Some(now)]

\* POST /requests/{id}/complete-delivery
complete_delivery(u) ==
    /\ UNCHANGED <<now, acceptPc, acceptResp, chatVars, auxVars>>
    /\ IF user_type(u) # "rider" THEN Reject("complete_delivery", 403)
       ELSE IF db = Nil THEN Reject("complete_delivery", 404)
       ELSE IF Row.rider_id # Some(rider_profile(u))
       THEN Reject("complete_delivery", 403)
       ELSE IF Row.status \notin {"assigned", "in_progress"}
       THEN Reject("complete_delivery", 400)
       ELSE Commit("complete_delivery", 200, CompleteWrite(Row))

\* poll_request_status: the offer of row r has expired at the time of the read
OfferExpired(r) ==
    /\ r.notification_sent_at # Nil
    /\ now - r.notification_sent_at[1] > OfferTimeoutSeconds
    /\ r.status = "pending"

\* the call before the next one is a status poll that reported timed_out
AfterTimeout == last.op = "poll" /\ last.code = 200 /\ last.timed_out

\* GET /requests/{id}/status-poll
poll_request_status(u) ==
    /\ UNCHANGED <<now, acceptPc, acceptResp, was_confirmed, chatVars, auxVars>>
    /\ IF db = Nil
       THEN last' = Respond("poll", 404) /\ UNCHANGED db
       ELSE IF user_type(u) = "customer" /\ Row.customer_id # u
       THEN last' = Respond("poll", 403) /\ UNCHANGED db
       ELSE IF OfferExpired(Row)
       THEN /\ db' = Some(ClearOffer(Row))
            /\ last' = Response("poll", 200, TRUE, AfterTimeout)
       ELSE /\ UNCHANGED db
            /\ last' = Response("poll", 200, FALSE, AfterTimeout)

----------------------------------------------------------------------------
(* Two accept handlers in flight: each rider's session first loads the row *)
(* and runs the checks, and later flushes its assignments with db.commit(). *)

\* accept_request up to and including the status check
AcceptLoad(u) ==
    /\ acceptPc[u] = "idle"
    /\ IF AcceptCheck(u) # 200
       THEN /\ acceptPc' = [acceptPc EXCEPT ![u] = "done"]
            /\ acceptResp' = [acceptResp EXCEPT ![u] = AcceptCheck(u)]
       ELSE /\ acceptPc' = [acceptPc EXCEPT ![u] = "loaded"]
            /\ UNCHANGED acceptResp
    /\ UNCHANGED <<db, now, last, was_confirmed, chatVars, auxVars>>

\* accept_request from the assignments to the response: the UPDATE carries
\* the assigned columns and is keyed on request_id only
AcceptCommit(u) ==
    /\ acceptPc[u] = "loaded"
    /\ db' = Some(AcceptWrite(Row, u))
    /\ acceptPc' = [acceptPc EXCEPT ![u] = "done"]
    /\ acceptResp' = [acceptResp EXCEPT ![u] = 200]
    /\ UNCHANGED <<now, last, was_confirmed, chatVars, auxVars>>

----------------------------------------------------------------------------
Next ==
    \/ Tick
    \/ \E u \in Creators, pm \in PaymentMethodInputs : create_request(u, pm)
    \/ \E u \in Users, rid \in RiderIdInputs : select_rider_for_request(u, rid)
    \/ \E u \in Users : accept_request(u)
    \/ \E u \in Users : decline_request(u)
    \/ \E u \in Users : poll_request_status(u)
    \/ \E u \in Users : start_delivery(u)
    \/ \E u \in Users, ic \in Amounts, sf \in Amounts : submit_bill(u, ic, sf)
    \/ \E u \in Users : submit_payment(u, "ref1")
    \/ \E u \in Users : confirm_payment(u)
    \/ \E u \in Users : complete_delivery(u)
    \/ \E u \in Users : cancel_request(u)
    \/ \E u \in Users, s \in RequestStatus : update_request_status(u, s)

Spec == Init /\ [][Next]_vars

NextRace ==
    \/ Tick
    \/ \E u \in Creators, pm \in PaymentMethodInputs : create_request(u, pm)
    \/ \E u \in Users, rid \in RiderIdInputs : select_rider_for_request(u, rid)
    \/ \E u \in RiderUsers : AcceptLoad(u)
    \/ \E u \in RiderUsers : AcceptCommit(u)

SpecRace == Init /\ [][NextRace]_vars

----------------------------------------------------------------------------
(* Messaging (routes/messaging.py, services/message_service.py).           *)
(* One conversation is modelled, with its room in the ConnectionManager    *)
(* and one websocket_endpoint coroutine per connection.  A coroutine runs  *)
(* without interruption up to its next awaited send.                        *)
(*                                                                         *)
(* SpecChat   : attach, send_message, typing, bad payloads, disconnects.   *)
(* SpecInbox  : send_message, mark_read, soft delete and the unread count. *)
(* SpecAccess : who may create, read and attach to a conversation.         *)

\* the conversation row loaded by get_conversation_by_id
Convo == conversation[1]

\* MessageService.user_has_access
user_has_access(u) ==
    IF conversation = Nil THEN FALSE
    ELSE IF user_type(u) = "admin" THEN TRUE
    ELSE IF user_type(u) = "customer" THEN Convo.customer_id = u
    ELSE Convo.rider_id = Some(rider_profile(u))

(* A room is a Python dict user id -> websocket.  Its entries keep their  *)
(* insertion order; a popped key leaves a dead entry behind, so positions *)
(* of an iterator stay valid.                                              *)

Live(d) == {i \in DOMAIN d : d[i].live}

\* len(d)
Used(d) == Cardinality(Live(d))

\* d[uid] = ws
SetItem(d, uid, ws) ==
    IF \E i \in Live(d) : d[i].uid = uid
    THEN [i \in DOMAIN d |->
            IF d[i].live /\ d[i].uid = uid THEN [d[i] EXCEPT !.ws = ws] ELSE d[i]]
    ELSE Append(d, [uid |-> uid, ws |-> ws, live |-> TRUE])

\* d.pop(uid, None)
Pop(d, uid) ==
    [i \in DOMAIN d |->
        IF d[i].uid = uid THEN [d[i] EXCEPT !.live = FALSE] ELSE d[i]]

\* for uid in dead: d.pop(uid, None)
PopAll(d, dead) ==
    [i \in DOMAIN d |->
        IF d[i].uid \in dead THEN [d[i] EXCEPT !.live = FALSE] ELSE d[i]]

\* the users registered in the room
Occupants == IF rooms = Nil THEN {} ELSE {rooms[1][i].uid : i \in Live(rooms[1])}

\* the websocket registered for user uid
SocketOf(uid) ==
    LET i == CHOOSE i \in Live(rooms[1]) : rooms[1][i].uid = uid IN rooms[1][i].ws

\* ws.send_text raises: the peer has closed, or the server has closed the
\* socket because its endpoint coroutine is over
SendFails(ws) ==
    \/ client[ws] = "closed"
    \/ handler[ws].pc \in {"ended", "raised"}

\* events whose delivery is recorded in the recipient's inbox
Logged(event) == event[1] \in {"new_message", "user_left"}

\* the next entry the dict iterator yields after position pos that is not
\* skipped by `if exclude_user_id and uid == exclude_user_id: continue`
NextTarget(d, pos, exclude) ==
    LET cand == {i \in DOMAIN d : i > pos /\ d[i].live /\ Some(d[i].uid) # exclude}
    IN  IF cand = {} THEN 0 ELSE CHOOSE i \in cand : \A j \in cand : i <= j

\* where the endpoint continues when its broadcast returns
AfterBroadcast(phase) == IF phase = "leaving" THEN "ended" ELSE "receive"

\* broadcast_to_room from a resumption of the loop to its next awaited send.
\* rms, gen: the registry at this point; f: the loop's frame.
\* The iterator raises RuntimeError when the dict changed size, and the dict
\* it iterates is no longer the room's when the room was deleted meanwhile.
Broadcast(ch, f, rms, gen, phase) ==
    IF rms = Nil \/ f.gen # gen \/ Used(rms[1]) # f.used0
    THEN /\ handler' = [handler EXCEPT ![ch] = HandlerAt("raised", Some(f))]
         /\ rooms' = rms
         /\ UNCHANGED inbox
    ELSE LET j == NextTarget(rms[1], f.pos, f.exclude) IN
         IF j = 0
         THEN /\ handler' = [handler EXCEPT ![ch] = HandlerAt(AfterBroadcast(phase), Nil)]
              /\ rooms' = Some(PopAll(rms[1], f.dead))
              /\ UNCHANGED inbox
         ELSE LET e == rms[1][j] IN
              /\ rooms' = rms
              /\ IF SendFails(e.ws)
                 THEN /\ handler' = [handler EXCEPT ![ch] =
                            HandlerAt(phase, Some([f EXCEPT !.pos = j,
                                                            !.dead = @ \cup {e.uid}]))]
                      /\ UNCHANGED inbox
                 ELSE /\ handler' = [handler EXCEPT ![ch] =
                            HandlerAt(phase, Some([f EXCEPT !.pos = j]))]
                      /\ inbox' = IF Logged(f.event)
                                  THEN [inbox EXCEPT ![e.ws] = Append(@, f.event)]
                                  ELSE inbox

\* broadcast_to_room from its call to its first awaited send
StartBroadcast(ch, event, exclude, rms, gen, phase) ==
    IF rms = Nil
    THEN /\ handler' = [handler EXCEPT ![ch] = HandlerAt(AfterBroadcast(phase), Nil)]
         /\ rooms' = rms
         /\ UNCHANGED inbox
    ELSE Broadcast(ch, [event |-> event, exclude |-> exclude, pos |-> 0,
                        used0 |-> Used(rms[1]), gen |-> gen, dead |-> {}],
                   rms, gen, phase)

\* websocket_endpoint from the access check to the user_joined broadcast
Attach(ch) ==
    /\ handler[ch].pc = "new"
    /\ UNCHANGED <<lifeVars, auxVars, conversation, messages, receipts, typing, client, svc>>
    /\ IF ~user_has_access(ChanUser(ch))
       THEN /\ handler' = [handler EXCEPT ![ch] = HandlerAt("refused", Nil)]
            /\ UNCHANGED <<rooms, roomGen, inbox, connections>>
       ELSE LET gen == IF rooms = Nil THEN roomGen + 1 ELSE roomGen
                rms == Some(SetItem(IF rooms = Nil THEN <<>> ELSE rooms[1],
                                    ChanUser(ch), ch))
            IN  /\ roomGen' = gen
                /\ connections' = [connections EXCEPT ![ch] = Some(TRUE)]
                /\ StartBroadcast(ch, <<"user_joined", ChanUser(ch)>>,
                                  Some(ChanUser(ch)), rms, gen, "joining")

\* a coroutine suspended in a send of broadcast_to_room is resumed
Resume(ch) ==
    /\ handler[ch].pc \in {"joining", "sending", "leaving"}
    /\ handler[ch].bc # Nil
    /\ Broadcast(ch, handler[ch].bc[1], rooms, roomGen, handler[ch].pc)
    /\ UNCHANGED <<lifeVars, auxVars, conversation, messages, receipts, typing, client,
                   svc, roomGen, connections>>

\* the endpoint is waiting in receive_text and the client has sent a frame
Receiving(ch) == handler[ch].pc = "receive" /\ client[ch] = "open"

\* MessageService.create_message
create_message(u) == Append(messages, [sender_id |-> u, is_deleted |-> FALSE])

\* event send_message with content
SendMessage(ch) ==
    /\ Receiving(ch)
    /\ Len(messages) < MaxMessages
    /\ messages' = create_message(ChanUser(ch))
    /\ StartBroadcast(ch, <<"new_message", Len(messages) + 1>>, Nil,
                      rooms, roomGen, "sending")
    /\ UNCHANGED <<lifeVars, auxVars, conversation, receipts, typing, client, svc,
                   roomGen, connections>>

\* event send_message with neither content nor attachment
EmptyMessage(ch) ==
    /\ Receiving(ch)
    /\ Len(SelectSeq(inbox[ch], LAMBDA e : e[1] = "error")) < MaxErrors
    /\ inbox' = [inbox EXCEPT ![ch] = Append(@, <<"error">>)]
    /\ UNCHANGED <<lifeVars, auxVars, conversation, messages, receipts, typing, client,
                   svc, rooms, roomGen, handler, connections>>

\* a frame that is not JSON, or JSON that is not an object: json.loads or
\* data.get raises, and the endpoint only catches WebSocketDisconnect
Malformed(ch) ==
    /\ Receiving(ch)
    /\ handler' = [handler EXCEPT ![ch] = HandlerAt("raised", Nil)]
    /\ UNCHANGED <<lifeVars, auxVars, conversation, messages, receipts, typing, client,
                   svc, rooms, roomGen, inbox, connections>>

\* MessageService.set_typing_status
set_typing_status(u, is_typing) == [typing EXCEPT ![u] = Some(is_typing)]

\* events typing_start and typing_stop
Typing(ch, is_typing) ==
    /\ Receiving(ch)
    /\ typing' = set_typing_status(ChanUser(ch), is_typing)
    /\ StartBroadcast(ch, <<"user_typing", ChanUser(ch)>>, Some(ChanUser(ch)),
                      rooms, roomGen, "sending")
    /\ UNCHANGED <<lifeVars, auxVars, conversation, messages, receipts, client, svc,
                   roomGen, connections>>

\* the client closes its side of an attached connection
ClientClose(ch) ==
    /\ handler[ch].pc \in {"joining", "receive", "sending"}
    /\ client[ch] = "open"
    /\ client' = [client EXCEPT ![ch] = "closed"]
    /\ UNCHANGED <<lifeVars, auxVars, conversation, messages, receipts, typing, svc,
                   rooms, roomGen, handler, inbox, connections>>

\* ConnectionManager.disconnect
ManagerDisconnect(u) ==
    IF rooms = Nil THEN Nil
    ELSE IF Used(Pop(rooms[1], u)) = 0 THEN Nil
    ELSE Some(Pop(rooms[1], u))

\* receive_text raises WebSocketDisconnect: the except block
Disconnect(ch) ==
    /\ handler[ch].pc = "receive"
    /\ client[ch] = "closed"
    /\ connections' = [connections EXCEPT ![ch] = Some(FALSE)]
    /\ typing' = set_typing_status(ChanUser(ch), FALSE)
    /\ StartBroadcast(ch, <<"user_left", ChanUser(ch)>>, Nil,
                      ManagerDisconnect(ChanUser(ch)), roomGen, "leaving")
    /\ UNCHANGED <<lifeVars, auxVars, conversation, messages, receipts, client, svc, roomGen>>

\* get_or_create_conversation: the row inserted for a request
NewConversation(r) == [customer_id |-> r.customer_id, rider_id |-> r.rider_id]

\* c1's request has been accepted by r1 and its conversation created
InitChat ==
    /\ db = Some(AcceptWrite(NewRequest("c1", "cod"), "r1"))
    /\ now = 0
    /\ last = Respond("none", 0)
    /\ was_confirmed = FALSE
    /\ acceptPc = [u \in RiderUsers |-> "idle"]
    /\ acceptResp = [u \in RiderUsers |-> 0]
    /\ conversation = Some(NewConversation(db[1]))
    /\ ChatIdle
    /\ AuxIdle

NextChat ==
    \/ \E ch \in FirstDevices : Attach(ch)
    \/ \E ch \in FirstDevices : Resume(ch)
    \/ \E ch \in FirstDevices : SendMessage(ch)
    \/ \E ch \in FirstDevices : EmptyMessage(ch)
    \/ \E ch \in FirstDevices : Malformed(ch)
    \/ \E ch \in FirstDevices, t \in BOOLEAN : Typing(ch, t)
    \/ \E ch \in FirstDevices : ClientClose(ch)
    \/ \E ch \in FirstDevices : Disconnect(ch)

SpecChat == InitChat /\ [][NextChat]_vars

----------------------------------------------------------------------------
(* Read receipts and the unread count *)

\* the response of the last REST call on the messaging router
Answer(op, code, count) == [op |-> op, code |-> code, count |-> count]

\* sessionmaker(autocommit=False, autoflush=False): a query does not flush
\* the objects added to the session, so it does not see them
autoflush == FALSE

\* the number of receipts for (message_id, u) in the table
ReceiptsFor(table, message_id, u) == table[<<message_id, u>>]

\* the number of receipts for (message_id, u) among the rows added to a session
Added(pending, message_id, u) ==
    Len(SelectSeq(pending, LAMBDA r : r = <<message_id, u>>))

\* the loop of mark_messages_read: the receipts added to the session
RECURSIVE PendingReceipts(_, _, _)
PendingReceipts(message_ids, u, pending) ==
    IF message_ids = <<>> THEN pending
    ELSE LET message_id == Head(message_ids)
             exists_check ==
                 \/ ReceiptsFor(receipts, message_id, u) > 0
                 \/ autoflush /\ Added(pending, message_id, u) > 0
         IN  PendingReceipts(Tail(message_ids), u,
                 IF exists_check THEN pending
                 ELSE Append(pending, <<message_id, u>>))

\* UniqueConstraint("message_id", "user_id") over the rows of the table
uq_message_user(table) == \A k \in ReceiptKeys : table[k] <= 1

\* ForeignKey("messages.message_id") of the rows added to a session
fk_message_id(pending) ==
    \A i \in DOMAIN pending : pending[i][1] \in DOMAIN messages

\* MessageService.mark_messages_read: db.commit() inserts the added receipts,
\* or raises IntegrityError and inserts none of them
mark_messages_read(message_ids, u) ==
    LET pending == PendingReceipts(message_ids, u, <<>>)
        table == [k \in ReceiptKeys |-> receipts[k] + Added(pending, k[1], k[2])]
    IN  IF uq_message_user(table) /\ fk_message_id(pending)
        THEN [ok |-> TRUE, receipts |-> table]
        ELSE [ok |-> FALSE, receipts |-> receipts]

\* the unread count without the is_deleted filter
UnreadCount_countsDeleted(u) ==
    Cardinality({i \in DOMAIN messages :
                    /\ messages[i].sender_id # u
                    /\ ReceiptsFor(receipts, i, u) = 0})

\* MessageService.get_unread_count: messages LEFT OUTER JOIN receipts of u,
\* one joined row <<i, n>> per matching receipt n of message i, and one with
\* a NULL receipt (n = 0) when there is none; the filter keeps the rows of
\* others' undeleted messages whose receipt is NULL, and count() counts them
UnreadCount(u) ==
    LET joined == {row \in (DOMAIN messages) \X (0 .. MaxMessages) :
                      \/ row[2] >= 1 /\ row[2] <= ReceiptsFor(receipts, row[1], u)
                      \/ row[2] = 0 /\ ReceiptsFor(receipts, row[1], u) = 0}
    IN  Cardinality({row \in joined :
                        /\ messages[row[1]].sender_id # u
                        /\ messages[row[1]].is_deleted = FALSE
                        /\ row[2] = 0})

\* message id lists a client sends with mark_read
IdLists == {<<1>>, <<2>>, <<1, 2>>, <<2, 2>>}

\* event mark_read
MarkRead(ch, message_ids) ==
    /\ Receiving(ch)
    /\ message_ids # <<>>
    /\ LET res == mark_messages_read(message_ids, ChanUser(ch)) IN
       /\ receipts' = res.receipts
       /\ IF res.ok
          THEN StartBroadcast(ch, <<"messages_read", ChanUser(ch)>>,
                              Some(ChanUser(ch)), rooms, roomGen, "sending")
          ELSE /\ handler' = [handler EXCEPT ![ch] = HandlerAt("raised", Nil)]
               /\ UNCHANGED <<rooms, inbox>>
    /\ UNCHANGED <<lifeVars, auxVars, conversation, messages, typing, client, svc,
                   roomGen, connections>>

\* GET /messages/conversations/{id}/unread
get_unread_count(u) ==
    /\ svc' = IF ~user_has_access(u) THEN Answer("get_unread_count", 403, 0)
              ELSE Answer("get_unread_count", 200, UnreadCount(u))
    /\ UNCHANGED <<lifeVars, auxVars, conversation, messages, receipts, connections, typing,
                   rooms, roomGen, handler, client, inbox>>

\* DELETE /messages/{message_id}
delete_message(u, message_id) ==
    /\ IF message_id \in DOMAIN messages /\ messages[message_id].sender_id = u
       THEN /\ messages' = [messages EXCEPT ![message_id].is_deleted = TRUE]
            /\ svc' = Answer("delete_message", 200, 0)
       ELSE /\ svc' = Answer("delete_message", 403, 0)
            /\ UNCHANGED messages
    /\ UNCHANGED <<lifeVars, auxVars, conversation, receipts, connections, typing,
                   rooms, roomGen, handler, client, inbox>>

\* get_conversation: the ids of the listed messages that others sent
unread_ids(u) ==
    SelectSeq([i \in DOMAIN messages |-> i],
              LAMBDA i : messages[i].is_deleted = FALSE /\ messages[i].sender_id # u)

\* GET /messages/conversations/{id}
get_conversation(u) ==
    /\ IF ~user_has_access(u)
       THEN /\ svc' = Answer("get_conversation", 403, 0)
            /\ UNCHANGED receipts
       ELSE LET res == mark_messages_read(unread_ids(u), u) IN
            /\ receipts' = res.receipts
            /\ svc' = Answer("get_conversation", IF res.ok THEN 200 ELSE 500, 0)
    /\ UNCHANGED <<lifeVars, auxVars, conversation, messages, connections, typing,
                   rooms, roomGen, handler, client, inbox>>

\* the callers of the read endpoints: the assigned rider and an outsider
Readers == {"r1", "c2"}

\* the callers of the delete endpoint: the customer and an outsider
Deleters == {"c1", "c2"}

NextInbox ==
    \/ \E ch \in FirstDevices : Attach(ch)
    \/ \E ch \in FirstDevices : Resume(ch)
    \/ \E ch \in FirstDevices : SendMessage(ch)
    \/ \E ch \in FirstDevices, l \in IdLists : MarkRead(ch, l)
    \/ \E u \in Readers : get_unread_count(u)
    \/ \E u \in Deleters, i \in 1 .. MaxMessages : delete_message(u, i)
    \/ \E u \in Readers : get_conversation(u)

SpecInbox == InitChat /\ [][NextInbox]_vars

----------------------------------------------------------------------------
(* Access to the conversation of a request *)

\* users.user_id and riders.rider_id are separate autoincrement keys, so a
\* user id and a rider id may be the same number
user_id(u) ==
    CASE u = "c1" -> 1 [] u = "c2" -> 2 [] u = "r1" -> 3 [] u = "r2" -> 4 [] OTHER -> 5

rider_id(rider) == IF rider = "rider1" THEN 1 ELSE 2

\* create_conversation: [request.customer_id, request.rider_id or 0]
AllowedIds(r) ==
    {user_id(r.customer_id), IF r.rider_id = Nil THEN 0 ELSE rider_id(r.rider_id[1])}

\* MessageService.get_or_create_conversation
get_or_create_conversation(r) ==
    IF conversation # Nil THEN conversation ELSE Some(NewConversation(r))

\* POST /messages/conversations
create_conversation(u) ==
    /\ IF db = Nil
       THEN /\ svc' = Answer("create_conversation", 404, 0)
            /\ UNCHANGED conversation
       ELSE IF user_id(u) \notin AllowedIds(Row)
       THEN /\ svc' = Answer("create_conversation", 403, 0)
            /\ UNCHANGED conversation
       ELSE /\ conversation' = get_or_create_conversation(Row)
            /\ svc' = Answer("create_conversation", 200, 0)
    /\ UNCHANGED <<lifeVars, auxVars, messages, receipts, connections, typing,
                   rooms, roomGen, handler, client, inbox>>

NextAccess ==
    \/ \E u \in Creators, pm \in PaymentMethodInputs : create_request(u, pm)
    \/ \E u \in Users : accept_request(u)
    \/ \E u \in Users : create_conversation(u)
    \/ \E u \in Users : get_conversation(u)
    \/ \E ch \in FirstDevices : Attach(ch)
    \/ \E ch \in FirstDevices : Resume(ch)

SpecAccess == Init /\ [][NextAccess]_vars

----------------------------------------------------------------------------
(* create_conversation, statement by statement: several requests for the    *)
(* same request_id interleave between the SELECT of                         *)
(* get_or_create_conversation and its INSERT.  The conversations table of   *)
(* the request is the sequence `conversation`; a row's conversation_id is   *)
(* its position (autoincrement).                                            *)

\* Conversation.request_id is declared unique=True
unique_request_id_absent(table) == TRUE

unique_request_id(table) == Len(table) <= 1

\* the request lookup, the access check and the SELECT of
\* get_or_create_conversation
ConvLoad(u) ==
    /\ convCall[u].pc # "loaded"
    /\ convCall' = [convCall EXCEPT ![u] =
         IF db = Nil THEN ConvAt("done", Nil, 404, 0)
         ELSE IF user_id(u) \notin AllowedIds(Row) THEN ConvAt("done", Nil, 403, 0)
         ELSE IF conversation # <<>> THEN ConvAt("done", Nil, 200, 1)
         ELSE ConvAt("loaded", Some(Row), 0, 0)]
    /\ UNCHANGED <<lifeVars, chatVars, riders, found, fare, pendingForMe, confirmPc>>

\* db.add(convo); db.commit(); db.refresh(convo): the INSERT fails with an
\* IntegrityError, which the route does not catch, when the row would break
\* the unique index
ConvCommit(u) ==
    /\ convCall[u].pc = "loaded"
    /\ LET table == Append(conversation, NewConversation(convCall[u].request[1]))
       IN IF unique_request_id(table)
          THEN /\ conversation' = table
               /\ convCall' = [convCall EXCEPT ![u] = ConvAt("done", Nil, 200, Len(table))]
          ELSE /\ convCall' = [convCall EXCEPT ![u] = ConvAt("done", Nil, 500, 0)]
               /\ UNCHANGED conversation
    /\ UNCHANGED <<lifeVars, messages, receipts, connections, typing,
                   rooms, roomGen, handler, client, inbox, svc, riders, found, fare,
                   pendingForMe, confirmPc>>

NextConvRace ==
    \/ \E u \in Creators, pm \in PaymentMethodInputs : create_request(u, pm)
    \/ \E u \in Users : accept_request(u)
    \/ \E u \in Users : ConvLoad(u)
    \/ \E u \in Users : ConvCommit(u)

SpecConvRace == Init /\ [][NextConvRace]_vars

----------------------------------------------------------------------------
(* Rider discovery (routes/locations.py).  The riders table joined with the *)
(* users' presence records is the sequence `riders`; rider_id is the        *)
(* position.  All points lie on one meridian, a latitude is counted in      *)
(* metres of arc from the equator, so that the haversine distance of two    *)
(* points is the difference of their latitudes.                             *)

MaxRiders == 2

\* ul.created_at > DATE_SUB(NOW(), INTERVAL 5 MINUTE), in seconds
FreshnessSeconds == 300

\* the columns of the SELECT list, and the last index from_db_row reads
SelectedColumns == 14
LastIndexRead == 14

\* limit = min(int(limit), 200)
MaxLimit == 200

AvailabilityStatuses == {"available", "busy", "offline"}
Ratings == {4, 5}
Latitudes == {0, 2000, 4000, 9000}
Ages == {299, 300}
Presence == {Nil} \cup {Some([latitude |-> y, age |-> a]) : y \in Latitudes, a \in Ages}

RiderRows ==
    [availability_status : AvailabilityStatuses, rating : Ratings, location : Presence]

\* the parameters of a call
Origins == {2000}
Radii == {1, 5}
Limits == {1, 50}
StatusParams == {"available", "busy", "all", "offline"}

Min(a, b) == IF a <= b THEN a ELSE b
Max(a, b) == IF a >= b THEN a ELSE b
Abs(a) == IF a < 0 THEN -a ELSE a

\* calculate_distance, in metres, for two points of the meridian
calculate_distance(lat1, lat2) == Abs(lat2 - lat1)

\* round(distance, 2) of a distance in km: hundredths of a km
Round2(metres) == (metres + 5) \div 10

\* WHERE r.availability_status ... AND ul.created_at > NOW() - 5 minutes
\* (a rider without a presence record has ul.created_at NULL)
Selected(statuses) ==
    {i \in DOMAIN riders :
        /\ riders[i].availability_status \in statuses
        /\ riders[i].location # Nil
        /\ riders[i].location[1].age < FreshnessSeconds}

\* the orders in which the database may return the rows of S under an
\* ORDER BY on key
Orderings(S, key) ==
    {q \in [1 .. Cardinality(S) -> S] :
        /\ \A i, j \in DOMAIN q : i # j => q[i] # q[j]
        /\ \A i, j \in DOMAIN q : i < j => key[q[i]] <= key[q[j]]}

\* ORDER BY r.rating DESC
ByRating == [i \in DOMAIN riders |-> 0 - riders[i].rating]

\* ORDER BY r.rating DESC, r.rider_id
ByRatingThenId ==
    [i \in DOMAIN riders |-> (0 - riders[i].rating) * (MaxRiders + 2) + i]

\* LIMIT n
Limit(q, n) == SubSeq(q, 1, Min(n, Len(q)))

\* AvailableRider.from_db_row reads row[14] of the 14-column row: IndexError
from_db_row(i) == IF LastIndexRead < SelectedColumns THEN Some(i) ELSE Nil

\* AvailableRider.to_dict: a zero distance_km is falsy and becomes None
to_dict(i, distance_km) ==
    [rider_id |-> i, rating |-> riders[i].rating,
     distance_km |-> IF distance_km # 0 THEN Some(distance_km) ELSE Nil]

\* the loop over the fetched rows: whether it raised, and riders_list
RECURSIVE Collect(_, _, _, _)
Collect(rows, k, lat, radius) ==
    IF k > Len(rows) THEN [raised |-> FALSE, list |-> <<>>]
    ELSE IF from_db_row(rows[k]) = Nil THEN [raised |-> TRUE, list |-> <<>>]
    ELSE LET i == rows[k]
             rest == Collect(rows, k + 1, lat, radius)
             y == riders[i].location[1].latitude
             distance == calculate_distance(lat, y)
         IN IF ~rest.raised /\ y # 0 /\ distance <= radius * 1000
            THEN [rest EXCEPT !.list = <<to_dict(i, Round2(distance))>> \o @]
            ELSE rest

\* list.sort(key) is stable: an element goes behind those with a key that is
\* not larger
RECURSIVE StableSort(_)
StableSort(pairs) ==
    IF pairs = <<>> THEN <<>>
    ELSE LET n == Len(pairs)
             front == StableSort(SubSeq(pairs, 1, n - 1))
             x == pairs[n]
             keep == Cardinality({k \in DOMAIN front : front[k][1] <= x[1]})
         IN SubSeq(front, 1, keep) \o <<x>> \o SubSeq(front, keep + 1, Len(front))

SortBy(list, key) ==
    LET sorted == StableSort([k \in DOMAIN list |-> <<key[k], list[k]>>])
    IN [k \in DOMAIN sorted |-> sorted[k][2]]

Infinity == 1000000

\* key=lambda r: r["distance_km"] or float("inf")
DistanceOrInf(list) ==
    [k \in DOMAIN list |->
        IF list[k].distance_km = Nil THEN Infinity ELSE list[k].distance_km[1]]

\* key=lambda r: r["distance_km"]
Distance(list) ==
    [k \in DOMAIN list |->
        IF list[k].distance_km = Nil THEN 0 ELSE list[k].distance_km[1]]

\* comparing None with a float or with None raises TypeError
SortRaises(list) == Len(list) >= 2 /\ \E k \in DOMAIN list : list[k].distance_km = Nil

\* GET /locations/riders/available
get_available_riders(lat, radius0, limit0) ==
    LET radius == IF radius0 < 1 \/ radius0 > 100 THEN Max(1, Min(100, radius0)) ELSE radius0
        limit == Min(limit0, MaxLimit)
    IN \E q \in Orderings(Selected({"available", "busy"}), ByRating) :
          LET loop == Collect(Limit(q, limit), 1, lat, radius)
              riders_list == loop.list
          IN /\ found' = IF loop.raised
                          THEN Found("available", lat, radius0, "workable", limit0, 500, <<>>)
                          ELSE Found("available", lat, radius0, "workable", limit0, 200,
                                     SortBy(riders_list, DistanceOrInf(riders_list)))
             /\ UNCHANGED <<lifeVars, chatVars, convCall, riders, fare, pendingForMe, confirmPc>>

\* GET /locations/riders/nearby
get_nearby_riders(lat, radius, status0) ==
    LET status == IF status0 \in {"available", "busy", "all"} THEN status0 ELSE "available"
        status_filter == IF status = "all" THEN {"available", "busy", "offline"} ELSE {status}
    IN \E q \in Orderings(Selected(status_filter), ByRatingThenId) :
          LET loop == Collect(q, 1, lat, radius)
              riders_list == loop.list
          IN /\ found' = IF loop.raised \/ SortRaises(riders_list)
                          THEN Found("nearby", lat, radius, status, 0, 500, <<>>)
                          ELSE Found("nearby", lat, radius, status, 0, 200,
                                     SortBy(riders_list, Distance(riders_list)))
             /\ UNCHANGED <<lifeVars, chatVars, convCall, riders, fare, pendingForMe, confirmPc>>

\* any riders table of up to MaxRiders riders
InitDiscovery ==
    /\ db = Nil
    /\ now = 0
    /\ last = Respond("none", 0)
    /\ was_confirmed = FALSE
    /\ acceptPc = [u \in RiderUsers |-> "idle"]
    /\ acceptResp = [u \in RiderUsers |-> 0]
    /\ conversation = Nil
    /\ ChatIdle
    /\ convCall = [u \in Users |-> ConvAt("idle", Nil, 0, 0)]
    /\ \E n \in 0 .. MaxRiders : riders \in [1 .. n -> RiderRows]
    /\ NoDiscovery
    /\ fare = Fare(0, "asked", 0)
    /\ NoListing
    /\ NoConfirm

NextDiscovery ==
    \/ \E lat \in Origins, radius \in Radii, limit \in Limits :
          get_available_riders(lat, radius, limit)
    \/ \E lat \in Origins, radius \in Radii, status \in StatusParams :
          get_nearby_riders(lat, radius, status)

SpecDiscovery == InitDiscovery /\ [][NextDiscovery]_vars

----------------------------------------------------------------------------
(* The service fee (utils/distance.py).  A distance is counted in           *)
(* hundredths of a km, a fee in pesos.                                      *)

MaxKm == 13

PerKm == 100

\* SERVICE_FEE_TIERS: (max km, fee)
SERVICE_FEE_TIERS == <<<<3, 30>>, <<6, 60>>, <<9, 90>>>>
FEE_PER_EXTRA_BRACKET == 30
BRACKET_SIZE_KM == 3

\* a quotient rounded towards zero
ceil_truncating(n, d) == n \div d

\* math.ceil(n / d) for n >= 0, d > 0
ceil(n, d) == (n + d - 1) \div d

\* for max_km, fee in SERVICE_FEE_TIERS: if distance_km <= max_km: return fee
RECURSIVE Tier(_, _)
Tier(distance_km, k) ==
    IF k > Len(SERVICE_FEE_TIERS) THEN Nil
    ELSE IF distance_km <= SERVICE_FEE_TIERS[k][1] * PerKm
    THEN Some(SERVICE_FEE_TIERS[k][2])
    ELSE Tier(distance_km, k + 1)

calculate_service_fee(distance_km) ==
    IF distance_km <= 0 THEN SERVICE_FEE_TIERS[1][2]
    ELSE IF Tier(distance_km, 1) # Nil THEN Tier(distance_km, 1)[1]
    ELSE LET last_tier_km == SERVICE_FEE_TIERS[Len(SERVICE_FEE_TIERS)][1]
             last_tier_fee == SERVICE_FEE_TIERS[Len(SERVICE_FEE_TIERS)][2]
             extra_km == distance_km - last_tier_km * PerKm
             extra_brackets == ceil(extra_km, BRACKET_SIZE_KM * PerKm)
         IN last_tier_fee + FEE_PER_EXTRA_BRACKET * extra_brackets

Distances == (0 - PerKm) .. (MaxKm * PerKm)

\* the fee of the distance is computed
QuoteFee ==
    /\ fare.pc = "asked"
    /\ fare' = Fare(fare.distance_km, "answered", calculate_service_fee(fare.distance_km))
    /\ UNCHANGED <<lifeVars, chatVars, convCall, riders, found, pendingForMe, confirmPc>>

\* any distance
InitFee ==
    /\ db = Nil
    /\ now = 0
    /\ last = Respond("none", 0)
    /\ was_confirmed = FALSE
    /\ acceptPc = [u \in RiderUsers |-> "idle"]
    /\ acceptResp = [u \in RiderUsers |-> 0]
    /\ conversation = Nil
    /\ ChatIdle
    /\ convCall = [u \in Users |-> ConvAt("idle", Nil, 0, 0)]
    /\ riders = <<>>
    /\ NoDiscovery
    /\ NoListing
    /\ NoConfirm
    /\ \E d \in Distances : fare = Fare(d, "asked", 0)

NextFee == QuoteFee

SpecFee == InitFee /\ [][NextFee]_vars

----------------------------------------------------------------------------
(* The two readers of the offer timestamp, with a clock that reaches the    *)
(* 600th second of an offer.                                                *)

\* the instants at which calls are made, in seconds
Instants == {0, 599, 600, 601}

\* datetime.utcnow() advances between calls
Advance(t) ==
    /\ t > now
    /\ now' = t
    /\ UNCHANGED <<db, last, was_confirmed, acceptPc, acceptResp, chatVars, auxVars>>

\* get_pending_requests_for_rider: the filter of the query on row r
PendingForRider(r, rider) ==
    /\ r.selected_rider_id = Some(rider)
    /\ r.status = "pending"
    /\ r.notification_sent_at # Nil
    /\ r.notification_sent_at[1] > now - OfferTimeoutSeconds

\* GET /requests/pending-for-me
get_pending_requests_for_rider(u) ==
    /\ pendingForMe' =
         IF user_type(u) # "rider" THEN Listing(403, FALSE, 0)
         ELSE IF db # Nil /\ PendingForRider(Row, rider_profile(u))
         THEN Listing(200, TRUE,
                      Max(0, OfferTimeoutSeconds - (now - Row.notification_sent_at[1])))
         ELSE Listing(200, FALSE, 0)
    /\ UNCHANGED <<lifeVars, chatVars, convCall, riders, found, fare, confirmPc>>

NextExpiry ==
    \/ \E t \in Instants : Advance(t)
    \/ \E u \in Creators, pm \in PaymentMethodInputs : create_request(u, pm)
    \/ \E u \in Users, rid \in RiderIdInputs : select_rider_for_request(u, rid)
    \/ \E u \in Users : poll_request_status(u)
    \/ \E u \in Users : get_pending_requests_for_rider(u)

SpecExpiry == Init /\ [][NextExpiry]_vars

----------------------------------------------------------------------------
(* confirm_payment, commit by commit: notify_payment_confirmed calls        *)
(* create_notification, whose db.commit() flushes the assignment of         *)
(* payment_status made before it; the handler's own db.commit() follows the *)
(* auto-completion.                                                         *)

\* confirm_payment up to the return of notify_payment_confirmed
ConfirmNotify(u) ==
    /\ confirmPc[u] = "idle"
    /\ IF db = Nil \/ Row.rider_id # Some(rider_profile(u))
       THEN /\ confirmPc' = [confirmPc EXCEPT ![u] = "done"]
            /\ UNCHANGED <<db, was_confirmed>>
       ELSE /\ db' = Some([Row EXCEPT !.payment_status = Some("confirmed")])
            /\ was_confirmed' = TRUE
            /\ confirmPc' = [confirmPc EXCEPT ![u] = "notified"]
    /\ UNCHANGED <<now, last, acceptPc, acceptResp, chatVars,
                   convCall, riders, found, fare, pendingForMe>>

\* confirm_payment from the auto-completion to the response; the commit of
\* create_notification expired the row, so the status is read again
ConfirmFinish(u) ==
    /\ confirmPc[u] = "notified"
    /\ db' = Some(AutoComplete(Row))
    /\ last' = Respond("confirm_payment", 200)
    /\ confirmPc' = [confirmPc EXCEPT ![u] = "done"]
    /\ UNCHANGED <<now, was_confirmed, acceptPc, acceptResp, chatVars,
                   convCall, riders, found, fare, pendingForMe>>

NextConfirm ==
    \/ Tick
    \/ \E u \in Creators, pm \in PaymentMethodInputs : create_request(u, pm)
    \/ \E u \in RiderUsers : accept_request(u)
    \/ \E u \in RiderUsers : start_delivery(u)
    \/ \E u \in Users : poll_request_status(u)
    \/ \E u \in RiderUsers : ConfirmNotify(u)
    \/ \E u \in RiderUsers : ConfirmFinish(u)

SpecConfirm == Init /\ [][NextConfirm]_vars

----------------------------------------------------------------------------
(* The customer connected from two devices, and the rider from one.         *)

NextDevices ==
    \/ \E ch \in Channels : Attach(ch)
    \/ \E ch \in Channels : Resume(ch)
    \/ \E ch \in Channels : ClientClose(ch)
    \/ \E ch \in Channels : Disconnect(ch)

SpecDevices == InitChat /\ [][NextDevices]_vars

----------------------------------------------------------------------------
(* Properties *)

HasRequest == db # Nil

\* the pending request has an outstanding offer older than the timeout
ExpiredOffer ==
    /\ HasRequest
    /\ Row.status = "pending"
    /\ Row.selected_rider_id # Nil
    /\ Row.notification_sent_at # Nil
    /\ now - Row.notification_sent_at[1] > OfferTimeoutSeconds

\* the money fields of the row
Money(r) == <<r.item_cost, r.service_fee, r.total_amount>>

\* C1: once both riders' accept calls on the same request have returned
\* (each with success or with a state-precondition error), exactly one has
\* succeeded, the other got a 400, and rider_id is the rider of the
\* successful call.
C1_ExactlyOneAcceptWins ==
    (/\ HasRequest
     /\ \A u \in RiderUsers : acceptPc[u] = "done" /\ acceptResp[u] \in {200, 400})
        => (\A w \in RiderUsers :
              acceptResp[w] = 200 =>
                /\ \A o \in RiderUsers \ {w} : acceptResp[o] = 400
                /\ Row.rider_id = Some(rider_profile(w)))

\* C2: selected_rider_id is null whenever status is not pending.
C2_SelectedOnlyWhilePending ==
    HasRequest => (Row.status # "pending" => Row.selected_rider_id = Nil)

\* C3: while a pending request has an outstanding offer to rider R1, an
\* accept call by another rider is rejected and leaves the row unchanged.
C3_OnlyOfferedRiderAccepts ==
    [][(HasRequest /\ Row.status = "pending" /\ Row.selected_rider_id # Nil
           /\ last'.op = "accept")
        => \A u \in RiderUsers :
             (Some(rider_profile(u)) # Row.selected_rider_id /\ accept_request(u))
                => (last'.code # 200 /\ db' = db)]_vars

\* the first status poll on an expired offer reports timed_out and leaves
\* the request pending with no selected rider
FirstPollReportsTimeout ==
    [][(ExpiredOffer /\ last'.op = "poll" /\ last'.code = 200)
        => \A u \in Users :
             poll_request_status(u)
               => /\ last'.timed_out
                  /\ db'[1].selected_rider_id = Nil
                  /\ db'[1].status = "pending"]_vars

\* C4: for an offer older than 10 minutes, two status polls in succession
\* both report timed_out = true; after each selected_rider_id is null and
\* status is pending.
C4_BothPollsReportTimeout ==
    /\ FirstPollReportsTimeout
    /\ [](last.op = "poll" /\ last.code = 200 /\ last.after_timeout
            => /\ last.timed_out
               /\ Row.selected_rider_id = Nil
               /\ Row.status = "pending")

\* C4 (amended): the first of two status polls in succession reports
\* timed_out = true and the second reports timed_out = false; after each
\* selected_rider_id is null and status is pending.
C4_OnlyFirstPollReportsTimeout ==
    /\ FirstPollReportsTimeout
    /\ [](last.op = "poll" /\ last.code = 200 /\ last.after_timeout
            => /\ ~last.timed_out
               /\ Row.selected_rider_id = Nil
               /\ Row.status = "pending")

\* a second successful poll has answered right after a poll that timed the offer out
C4_Witness ==
    /\ HasRequest
    /\ last.op = "poll" /\ last.code = 200 /\ last.after_timeout
    /\ ~last.timed_out
    /\ Row.status = "pending"

\* C5: once status is cancelled no operation changes it.
C5_CancelledIsTerminal ==
    [][(HasRequest /\ Row.status = "cancelled") => db'[1].status = "cancelled"]_vars

\* a generic status update or a cancel call by user u
UpdateOrCancelBy(u) ==
    \/ cancel_request(u)
    \/ \E s \in RequestStatus : update_request_status(u, s)

MayCancel(u) == Row.customer_id = u

\* the caller passes the ownership checks of the generic status update
MayUpdate(u) ==
    /\ user_type(u) = "customer" => Row.customer_id = u
    /\ user_type(u) = "rider" => Row.rider_id = Some(rider_profile(u))

C7_RiderSetIffLeftPending ==
    /\ [](HasRequest /\ Row.status \in {"assigned", "in_progress", "completed"}
            => Row.rider_id # Nil)
    /\ [][(HasRequest /\ Row.rider_id = Nil /\ db'[1].rider_id # Nil)
            => (Row.status = "pending" /\ db'[1].status # "pending")]_vars

\* C8: once payment_status has reached confirmed, the item_cost,
\* service_fee and total_amount of a billed request never change.
C8_MoneyFrozenAfterConfirm ==
    [][(HasRequest /\ was_confirmed /\ Row.total_amount # Nil)
         => Money(db'[1]) = Money(Row)]_vars

\* C9: completed_at is set if and only if status is completed.
C9_CompletedAtIffCompleted ==
    HasRequest => (Row.completed_at # Nil <=> Row.status = "completed")

\* a generic status update has completed the request and stamped it
C9_Witness ==
    /\ HasRequest
    /\ last.op = "update_status" /\ last.code = 200
    /\ Row.status = "completed" /\ Row.completed_at # Nil

C11_ConfirmAutoCompletes ==
    [][(HasRequest /\ last'.op = "confirm_payment" /\ last'.code = 200)
        => \A u \in RiderUsers :
             confirm_payment(u)
               => /\ db'[1].payment_status = Some("confirmed")
                  /\ IF Row.status \in {"assigned", "in_progress"}
                     THEN /\ db'[1].status = "completed"
                          /\ db'[1].completed_at = Some(now)
                     ELSE /\ db'[1].status = Row.status
                          /\ db'[1].completed_at = Row.completed_at]_vars

\* the assigned rider's confirm-payment has completed the delivery after
\* the clock moved on from the acceptance
C11_Witness ==
    /\ HasRequest
    /\ last.op = "confirm_payment" /\ last.code = 200
    /\ Row.payment_status = Some("confirmed")
    /\ Row.status = "completed"
    /\ now > 0 /\ Row.completed_at = Some(now)

\* C12: a rejected lifecycle call (its response is an error status) leaves
\* every field of the request unchanged.
C12_RejectionWritesNothing ==
    [][last'.code >= 400 => db' = db]_vars

\* the customer's payment has been refused because no bill exists yet
C12_Witness ==
    /\ HasRequest
    /\ last.op = "submit_payment" /\ last.code = 400
    /\ Row.payment_method = Some("gcash")
    /\ Row.gcash_reference = Nil

\* C13: a new_message event is delivered to the other occupants of the room
\* and never to a connection of the user who sent the message.
C13_SenderNotEchoed ==
    \A ch \in Channels : \A k \in DOMAIN inbox[ch] :
        inbox[ch][k][1] = "new_message"
          => messages[inbox[ch][k][2]].sender_id # ChanUser(ch)

\* C14: every connection receives the new_message events of the
\* conversation in the order in which the messages were persisted.
C14_DeliveredInPersistedOrder ==
    \A ch \in Channels : \A j, k \in DOMAIN inbox[ch] :
        (j < k /\ inbox[ch][j][1] = "new_message" /\ inbox[ch][k][1] = "new_message")
          => inbox[ch][j][2] < inbox[ch][k][2]

\* C15: no broadcast is aborted part-way: an endpoint never ends with an
\* exception raised out of a broadcast it had in progress.
C15_BroadcastNeverAborted ==
    \A ch \in Channels : ~(handler[ch].pc = "raised" /\ handler[ch].bc # Nil)

\* C16: a malformed frame is answered with an error event on the same
\* connection, which stays open and registered in its room.
C16_MalformedAnsweredWithError ==
    [][\A ch \in Channels :
         (handler'[ch] # handler[ch] /\ Malformed(ch))
           => /\ handler'[ch].pc = "receive"
              /\ inbox'[ch] = Append(inbox[ch], <<"error">>)
              /\ ChanUser(ch) \in Occupants']_vars

\* C17: once the endpoint of an attached connection is over, normally or by
\* an exception, its Connection Record is disconnected, the user's typing
\* indicator is off and the user is no longer in the room registry.
C17_EndedChannelCleanedUp ==
    \A ch \in Channels :
        handler[ch].pc \in {"ended", "raised"}
          => /\ connections[ch] = Some(FALSE)
             /\ typing[ChanUser(ch)] = Some(FALSE)
             /\ ~(ChanUser(ch) \in Occupants /\ SocketOf(ChanUser(ch)) = ch)

\* the messages the claim counts as unread for u
Unreceipted(u) ==
    {i \in DOMAIN messages :
        /\ messages[i].is_deleted = FALSE
        /\ messages[i].sender_id # u
        /\ receipts[<<i, u>>] = 0}

\* C18: the unread count of user u is the number of undeleted messages of
\* the conversation that u did not send and for which u has no Read Receipt,
\* also as the answer of the unread endpoint; a message sent by another
\* participant raises it by one, and a mark_read naming every such message
\* brings it to zero.
C18_UnreadCountIsUnreceipted ==
    /\ [](\A u \in {"c1", "r1", "c2"} : UnreadCount(u) = Cardinality(Unreceipted(u)))
    /\ [][\A u \in Readers :
            (svc'.op = "get_unread_count" /\ svc'.code = 200 /\ get_unread_count(u))
              => svc'.count = Cardinality(Unreceipted(u))]_vars
    /\ [][\A ch \in Channels :
            (messages' # messages /\ SendMessage(ch))
              => \A u \in {"c1", "r1", "c2"} \ {ChanUser(ch)} :
                    UnreadCount(u)' = UnreadCount(u) + 1]_vars
    /\ [][\A ch \in Channels :
            (receipts' # receipts /\ handler'[ch].pc # "raised"
               /\ \E l \in IdLists :
                     /\ MarkRead(ch, l)
                     /\ Unreceipted(ChanUser(ch)) \subseteq {l[k] : k \in DOMAIN l})
              => UnreadCount(ChanUser(ch))' = 0]_vars

\* the rider has read the customer's message: its unread endpoint answered 1
\* before, and the count is 0 after the mark_read
C18_Witness ==
    /\ \E i \in DOMAIN messages :
          /\ messages[i].sender_id = "c1" /\ messages[i].is_deleted = FALSE
          /\ receipts[<<i, "r1">>] = 1
    /\ svc = Answer("get_unread_count", 200, 1)
    /\ UnreadCount("r1") = 0

\* C19: a mark_read succeeds for every list of ids of existing messages
\* (repeated or already marked ids included), and afterwards exactly one
\* Read Receipt exists for each listed message and the caller, while the
\* receipts that existed are still there, unchanged.
C19_MarkReadIdempotent ==
    [][\A ch \in Channels : \A l \in IdLists :
         (/\ handler'[ch] # handler[ch]
          /\ \A k \in DOMAIN l : l[k] \in DOMAIN messages
          /\ MarkRead(ch, l))
           => /\ handler'[ch].pc # "raised"
              /\ \A k \in DOMAIN l : receipts'[<<l[k], ChanUser(ch)>>] = 1
              /\ \A k \in ReceiptKeys : receipts'[k] >= receipts[k]]_vars

\* u is the customer of the request, or the rider assigned to it
PartyOfRequest(u) ==
    \/ Row.customer_id = u
    \/ user_type(u) = "rider" /\ Row.rider_id = Some(rider_profile(u))

\* u is the customer of the conversation, or the rider stored in it
PartyOfConversation(u) ==
    \/ Convo.customer_id = u
    \/ user_type(u) = "rider" /\ Convo.rider_id = Some(rider_profile(u))

\* C20: a non-administrator is granted the create-or-fetch of a request's
\* conversation exactly when they are the request's customer or its assigned
\* rider (matched by the rider entity of the caller), and the REST read and
\* the websocket attach exactly when they are the conversation's customer or
\* its rider.
C20_AccessOnlyForParties ==
    [][/\ \A u \in Users \ Admins :
            /\ (svc'.op = "create_conversation" /\ db # Nil /\ create_conversation(u))
                 => (svc'.code = 200 <=> PartyOfRequest(u))
            /\ (svc'.op = "get_conversation" /\ conversation # Nil /\ get_conversation(u))
                 => (svc'.code = 200 <=> PartyOfConversation(u))
       /\ \A ch \in Channels :
            (handler[ch].pc = "new" /\ conversation # Nil /\ Attach(ch))
              => (handler'[ch].pc # "refused" <=> PartyOfConversation(ChanUser(ch)))]_vars

\* C21: however create_conversation requests for the same request interleave,
\* the conversations table holds at most one row for the request, and every
\* request answered with 200 returned that row's conversation_id
C21_OneConversationPerRequest ==
    /\ Len(conversation) <= 1
    /\ \A u \in Users :
          convCall[u].code = 200 =>
              /\ convCall[u].conversation_id \in DOMAIN conversation
              /\ \A v \in Users :
                    convCall[v].code = 200 =>
                        convCall[v].conversation_id = convCall[u].conversation_id

\* two requests both found no conversation; one inserted it, the other lost
C21_Witness ==
    \E u, v \in Users :
        /\ u # v
        /\ convCall[u].code = 200 /\ convCall[u].conversation_id = 1
        /\ convCall[v].code = 500
        /\ Len(conversation) = 1

\* the statuses that pass the status filter of the answered call
StatusFilter ==
    IF found.op = "available" \/ found.status = "all"
    THEN IF found.op = "available" THEN {"available", "busy"} ELSE AvailabilityStatuses
    ELSE {found.status}

\* the rider passes the status filter, has a presence record younger than
\* five minutes and is within the radius of the answered call
Qualifies(i) ==
    /\ riders[i].availability_status \in StatusFilter
    /\ riders[i].location # Nil
    /\ riders[i].location[1].age < FreshnessSeconds
    /\ calculate_distance(found.lat, riders[i].location[1].latitude) <= found.radius * 1000

Returned(i) == \E k \in DOMAIN found.riders : found.riders[k].rider_id = i

\* C22: rider discovery, whatever the fetch limit, returns a rider if and only
\* if the rider passes the status filter, the rider's presence record is
\* younger than five minutes and the rider is within the radius
C22_ReturnsExactlyQualifying ==
    found.op # "none" => \A i \in DOMAIN riders : Returned(i) <=> Qualifies(i)

\* the true distance of a returned rider from the origin, in metres
DistanceOf(r) == calculate_distance(found.lat, riders[r.rider_id].location[1].latitude)

\* distance ascending, then rating descending, then rider identity
Precedes(a, b) ==
    \/ DistanceOf(a) < DistanceOf(b)
    \/ /\ DistanceOf(a) = DistanceOf(b)
       /\ \/ a.rating > b.rating
          \/ a.rating = b.rating /\ a.rider_id < b.rider_id

\* C23: for every set of candidates both variants of rider discovery answer
\* with a list sorted by distance ascending (a rider at distance zero first),
\* riders at equal distance by rating descending and then by rider identity
C23_SortedByDistanceRatingIdentity ==
    found.op # "none" =>
        /\ found.code = 200
        /\ \A j, k \in DOMAIN found.riders :
              j < k => Precedes(found.riders[j], found.riders[k])

\* 30 up to 3 km, 30 * ceil(d / 3) beyond, d in hundredths of a km
StepFee(d) == IF d <= 3 * PerKm THEN 30 ELSE 30 * ((d + 3 * PerKm - 1) \div (3 * PerKm))

\* C24: calculate_service_fee is the step function 30 for d <= 3 (also for
\* d <= 0) and 30 * ceil(d / 3) for d > 3; fee(0) = fee(3) = 30, the fee just
\* above 3 is 60, fee(9) = 90, fee(9.1) = 120, and the fee of a shorter
\* distance is never larger
C24_FeeIsStepFunction ==
    fare.pc = "answered" =>
        /\ fare.fee = StepFee(fare.distance_km)
        /\ fare.distance_km \in {0, 3 * PerKm} => fare.fee = 30
        /\ fare.distance_km = 3 * PerKm + 1 => fare.fee = 60
        /\ fare.distance_km = 9 * PerKm => fare.fee = 90
        /\ fare.distance_km = 9 * PerKm + 10 => fare.fee = 120
        /\ \A e \in Distances :
              e <= fare.distance_km => calculate_service_fee(e) <= fare.fee

\* the fee of 9.1 km has been computed
C24_Witness ==
    fare.pc = "answered" /\ fare.distance_km = 9 * PerKm + 10 /\ fare.fee = 120

\* C25: at every instant, also 600 seconds after the offer timestamp, a
\* pending request offered to rider R is listed by R's pending-for-me query
\* if and only if a status poll at that instant would not report timed_out
C25_ReadPathsAgreeOnExpiry ==
    [][\A u \in RiderUsers :
          (/\ db # Nil
           /\ Row.status = "pending"
           /\ Row.selected_rider_id = Some(rider_profile(u))
           /\ get_pending_requests_for_rider(u))
          => (pendingForMe'.listed <=> ~OfferExpired(Row))]_vars

\* C26: no committed row has payment_status = confirmed written by a
\* confirm-payment that has not yet returned while its status is still
\* assigned or in_progress
C26_ConfirmIsAtomic ==
    \A u \in RiderUsers :
        confirmPc[u] = "notified" =>
            ~(/\ Row.payment_status = Some("confirmed")
              /\ Row.status \in {"assigned", "in_progress"})

\* C27: once payment_status is confirmed it stays confirmed: no later
\* submit-payment or submit-bill call by any party sets it to submitted or
\* pending
C27_ConfirmedNeverReverts ==
    [][(HasRequest /\ Row.payment_status = Some("confirmed"))
         => db'[1].payment_status = Some("confirmed")]_vars

\* the connection is attached to the conversation and its peer has not closed
LiveChannel(ch) == handler[ch].pc = "receive" /\ client[ch] = "open"

\* C28: after any sequence of connects and disconnects, a user with a live
\* channel attached to the conversation is a broadcast target of its room,
\* also when the user connected from a second device and the first device's
\* channel has disconnected since
C28_LiveUserIsBroadcastTarget ==
    \A ch \in Channels : LiveChannel(ch) => ChanUser(ch) \in Occupants

\* C29: whenever the request has an assigned rider and its conversation
\* exists, the conversation's rider id is the request's rider_id, also when
\* the customer created the conversation while the request was pending
C29_ConversationRiderFollowsRequest ==
    (HasRequest /\ Row.rider_id # Nil /\ conversation # Nil)
        => Convo.rider_id = Row.rider_id

\* the offer made to rider user u is more than ten minutes old and has not
\* been cleared
ExpiredOfferTo(u) ==
    /\ ExpiredOffer
    /\ Row.selected_rider_id = Some(rider_profile(u))

\* C30: an accept call by the offered rider issued after the offer has
\* expired is rejected and the request stays pending, whether the offer is
\* still on the row or a status poll has just cleared it
C30_ExpiredOfferCannotBeAccepted ==
    [][\A u \in RiderUsers :
          ((ExpiredOfferTo(u) \/ (HasRequest /\ AfterTimeout)) /\ accept_request(u))
          => (last'.code # 200 /\ db'[1].status = "pending")]_vars

====
